---- MODULE Spec2Model ----
(***************************************************************************)
(* Model of prompting/mock.py: MockStreamMiner (the token streamer),       *)
(* MockDendrite.call (unary simulator), MockDendrite.call_stream           *)
(* (streaming simulator) and MockDendrite.forward (fan-out dispatcher).    *)
(*                                                                         *)
(* Time is measured in whole seconds elapsed since start_time.  A string   *)
(* is a sequence of character codes: the codes in Whitespace are           *)
(* whitespace characters, every other code is a letter.                    *)
(***************************************************************************)
EXTENDS Integers, Sequences, FiniteSets, TLC

\* ---------------------------------------------------------------- bounds
MaxTargets == 3        \* longest list of axons handed to forward
MaxTokens == 25        \* longest prompt, in tokens
MaxBatch == 3          \* largest batch size given to a bare MockStreamMiner
MaxTick == 1           \* most seconds that pass between two clock reads
ClockSlack == 2        \* the clock saturates at Timeout + ClockSlack

\* ------------------------------------------------------ program constants
Timeout == 12                  \* timeout: float = 12.0
StreamingBatchSize == 12       \* MockStreamMiner(streaming_batch_size=12, ...)
StatusOK == 200
StatusTimeout == 408

MaxClock == Timeout + ClockSlack
NoValue == -1                  \* Python None in a numeric field
SP == 0                        \* " "
NL == 1                        \* "\n"
Whitespace == {SP, NL}

Min(a, b) == IF a < b THEN a ELSE b

\* ------------------------------------------------------------- strings
\* the positions where a maximal run of non-whitespace characters starts
TokenStarts(str) ==
  {i \in 1..Len(str) : str[i] \notin Whitespace /\ (i = 1 \/ str[i - 1] \in Whitespace)}

\* the position where the run that starts at i ends
TokenEnd(str, i) ==
  CHOOSE e \in i..Len(str) :
    /\ \A j \in i..e : str[j] \notin Whitespace
    /\ e = Len(str) \/ str[e + 1] \in Whitespace

\* prompt.split(): the maximal runs of non-whitespace characters, in order
Split(str) ==
  LET starts == TokenStarts(str) IN
  [k \in 1..Cardinality(starts) |->
     LET i == CHOOSE x \in starts : Cardinality({y \in starts : y < x}) = k - 1
     IN SubSeq(str, i, TokenEnd(str, i))]

\* " ".join(tokens)
RECURSIVE Join(_)
Join(toks) ==
  IF toks = <<>> THEN <<>>
  ELSE IF Len(toks) = 1 THEN toks[1]
  ELSE toks[1] \o <<SP>> \o Join(Tail(toks))

\* the prompts a call is tried on: n distinct tokens, either joined by single
\* spaces or of two letters each with ragged whitespace around them
RECURSIVE Plain(_)
Plain(n) == IF n = 0 THEN <<>>
            ELSE IF n = 1 THEN <<2>>
            ELSE Plain(n - 1) \o <<SP, n + 1>>

RECURSIVE Ragged(_)
Ragged(n) == IF n = 0 THEN <<NL>>
             ELSE Ragged(n - 1) \o <<n + 1, n + 1>> \o (IF n % 2 = 0 THEN <<SP, NL>> ELSE <<SP>>)

Prompts == {Plain(n) : n \in 0..MaxTokens} \cup {Ragged(n) : n \in 0..MaxTokens}

\* --------------------------------------------------------------- clock
\* time.time() - start_time, read when the clock shows c
ClockRead(c) == {Min(c + d, MaxClock) : d \in 0..MaxTick}

\* time.sleep(self.timeout * random.uniform(0.2, 0.5))
SleepTimes == {d \in 0..Timeout : 5 * d >= Timeout /\ 2 * d <= Timeout}

\* --------------------------------------------------------------- state
VARIABLES
  axons,               \* forward: number of targets in the list
  synapse,             \* forward: the caller's request template
  deserialize,         \* forward: the deserialize flag
  run_async,           \* forward: the run_async flag
  streaming,           \* forward: the streaming flag
  fpc,                 \* forward: position ("idle" when no dispatch is modelled)
  s,                   \* single_axon_response: the clone of each target
  task,                \* query_all_axons: state of each target's coroutine
  results,             \* query_all_axons: positional results
  ret,                 \* forward: what the caller got back
  cur,                 \* the target whose stream is being consumed
  spc,                 \* call_stream (or the list() driver): position
  continue_streaming,  \* call_stream: loop flag, rebound by the for target
  response_buffer,     \* call_stream: accumulated tokens
  out,                 \* call_stream: the items it has yielded
  exhausted,           \* a token loop of this call has run out of tokens
  clock,               \* time.time() - start_time at the last read
  streaming_batch_size,\* MockStreamMiner.streaming_batch_size
  gpc,                 \* _forward generator: position
  tokens,              \* _forward generator: prompt.split()
  ti,                  \* _forward generator: index of the next token
  buffer,              \* _forward generator: buffer
  timed_out,           \* _forward generator: its timeout check has fired
  chunk,               \* the pair the generator is yielding
  chunks               \* the pairs the current generator has yielded

dispatchVars == <<axons, synapse, deserialize, run_async, streaming, fpc, task, results, ret>>
callVars == <<cur, spc, continue_streaming, response_buffer, out, exhausted>>
streamerVars == <<clock, streaming_batch_size, gpc, tokens, ti, buffer, timed_out, chunk, chunks>>
vars == <<dispatchVars, s, callVars, streamerVars>>

\* a request as the caller builds it: nothing filled in yet
Request(kind, prompt) ==
  [kind |-> kind, prompt |-> prompt, axon |-> 0, completion |-> <<>>,
   status_code |-> NoValue, status_message |-> "", process_time |-> NoValue]

NoChunk == [tokens |-> <<>>, more |-> TRUE]

\* ------------------------------------------- MockStreamMiner.forward
\* token_streamer(True): a new generator over the prompt, from its first token
NewStreamer(prompt) ==
  /\ gpc' = "loop"
  /\ tokens' = Split(prompt)
  /\ ti' = 1
  /\ buffer' = <<>>
  /\ timed_out' = FALSE
  /\ chunks' = <<>>

\* one iteration of `for token in prompt.split()`
StreamerToken ==
  /\ spc = "for" /\ gpc = "loop" /\ ti <= Len(tokens)
  /\ LET b == Append(buffer, tokens[ti]) IN
     \E c \in ClockRead(clock) :
       /\ buffer' = b
       /\ ti' = ti + 1
       /\ IF c > Timeout
            THEN \* the log line reads self.start_time, which MockStreamMiner
                 \* never sets: AttributeError, `break` is not reached
                 /\ timed_out' = TRUE
                 /\ gpc' = "except"
                 /\ clock' = c
                 /\ UNCHANGED <<spc, chunk, chunks>>
            ELSE IF Len(b) = streaming_batch_size
              THEN \E d \in SleepTimes :
                 /\ clock' = Min(c + d, MaxClock)
                 /\ chunk' = [tokens |-> b, more |-> TRUE]
                 /\ chunks' = Append(chunks, [tokens |-> b, more |-> TRUE])
                 /\ gpc' = "yielded"
                 /\ spc' = "chunk"
                 /\ UNCHANGED timed_out
              ELSE
                 /\ clock' = c
                 /\ UNCHANGED <<gpc, spc, chunk, chunks, timed_out>>
  /\ UNCHANGED <<dispatchVars, s, cur, continue_streaming, response_buffer, out, exhausted,
                 streaming_batch_size, tokens>>

\* StreamerResume without `buffer = []`: the buffer keeps the yielded tokens
StreamerResumeKeepsBuffer ==
  /\ spc = "for" /\ gpc = "yielded"
  /\ gpc' = "loop"
  /\ UNCHANGED <<dispatchVars, s, callVars, clock, streaming_batch_size, tokens, ti,
                 buffer, timed_out, chunk, chunks>>

\* the consumer asks for the next pair: `buffer = []` after the yield
StreamerResume ==
  /\ spc = "for" /\ gpc = "yielded"
  /\ buffer' = <<>>
  /\ gpc' = "loop"
  /\ UNCHANGED <<dispatchVars, s, callVars, clock, streaming_batch_size, tokens, ti,
                 timed_out, chunk, chunks>>

\* StreamerFlush without the `if buffer:` test: an empty remainder is yielded
StreamerFlushAlways ==
  /\ spc = "for" /\ gpc = "loop" /\ ti > Len(tokens)
  /\ exhausted' = TRUE
  /\ chunk' = [tokens |-> buffer, more |-> FALSE]
  /\ chunks' = Append(chunks, [tokens |-> buffer, more |-> FALSE])
  /\ gpc' = "final"
  /\ spc' = "chunk"
  /\ UNCHANGED <<dispatchVars, s, cur, continue_streaming, response_buffer, out,
                 clock, streaming_batch_size, tokens, ti, buffer, timed_out>>

\* the token loop is exhausted: `if buffer:` yields the remainder
StreamerFlush ==
  /\ spc = "for" /\ gpc = "loop" /\ ti > Len(tokens)
  /\ exhausted' = TRUE
  /\ IF buffer # <<>>
       THEN /\ chunk' = [tokens |-> buffer, more |-> FALSE]
            /\ chunks' = Append(chunks, [tokens |-> buffer, more |-> FALSE])
            /\ gpc' = "final"
            /\ spc' = "chunk"
       ELSE /\ gpc' = "ended"
            /\ UNCHANGED <<spc, chunk, chunks>>
  /\ UNCHANGED <<dispatchVars, s, cur, continue_streaming, response_buffer, out,
                 clock, streaming_batch_size, tokens, ti, buffer, timed_out>>

\* `except Exception as e`: the error is logged and the generator returns
StreamerExcept ==
  /\ spc = "for" /\ gpc = "except"
  /\ gpc' = "ended"
  /\ UNCHANGED <<dispatchVars, s, callVars, clock, streaming_batch_size, tokens, ti,
                 buffer, timed_out, chunk, chunks>>

\* resumed after the last yield: the generator function returns
StreamerReturn ==
  /\ spc = "for" /\ gpc = "final"
  /\ gpc' = "ended"
  /\ UNCHANGED <<dispatchVars, s, callVars, clock, streaming_batch_size, tokens, ti,
                 buffer, timed_out, chunk, chunks>>

\* ------------------------------------------- MockDendrite.call_stream
\* start_time = time.time(); continue_streaming = True; response_buffer = [];
\* miner = MockStreamMiner(streaming_batch_size=12, timeout=timeout)
CallStreamStart ==
  /\ spc = "start"
  /\ clock' = 0
  /\ continue_streaming' = TRUE
  /\ response_buffer' = <<>>
  /\ streaming_batch_size' = StreamingBatchSize
  /\ exhausted' = FALSE
  /\ spc' = "while"
  /\ UNCHANGED <<dispatchVars, s, cur, out, gpc, tokens, ti, buffer, timed_out, chunk, chunks>>

\* `while continue_streaming:` holds: `for ... in token_streamer(True)` makes
\* a new generator
CallStreamLoop ==
  /\ spc = "while" /\ continue_streaming
  /\ NewStreamer(s[cur].prompt)
  /\ spc' = "for"
  /\ UNCHANGED <<dispatchVars, s, cur, continue_streaming, response_buffer, out, exhausted,
                 clock, streaming_batch_size, chunk>>

\* FinalizeOK joining after `response_buffer = []`: the completion is empty
FinalizeOKAfterReset(rec, buf, now) ==
  [rec EXCEPT !.completion = <<>>, !.status_code = StatusOK,
              !.status_message = "OK", !.process_time = now]

\* the record when the last pair (more_coming = false) has arrived
FinalizeOK(rec, buf, now) ==
  [rec EXCEPT !.completion = Join(buf), !.status_code = StatusOK,
              !.status_message = "OK", !.process_time = now]

\* FinalizeTimeout joining the last pair alone instead of all that arrived
FinalizeTimeoutLastPair(rec, buf) ==
  [rec EXCEPT !.completion = Join(SubSeq(buf, Len(buf) - StreamingBatchSize + 1, Len(buf))),
              !.status_code = StatusTimeout,
              !.status_message = "Timeout", !.process_time = Timeout]

\* the record when the outer timeout check fires
FinalizeTimeout(rec, buf) ==
  [rec EXCEPT !.completion = Join(buf), !.status_code = StatusTimeout,
              !.status_message = "Timeout", !.process_time = Timeout]

\* CallStreamChunk whose timeout branch forgets `continue_streaming = False`
CallStreamChunkNoStop ==
  /\ spc = "chunk"
  /\ LET rb == response_buffer \o chunk.tokens IN
     \E now \in ClockRead(clock) :
       /\ clock' = now
       /\ IF ~chunk.more
            THEN /\ s' = [s EXCEPT ![cur] = FinalizeOK(s[cur], rb, now)]
                 /\ response_buffer' = <<>>
                 /\ continue_streaming' = FALSE
                 /\ spc' = "while"
            ELSE IF now > Timeout
              THEN /\ s' = [s EXCEPT ![cur] = FinalizeTimeout(s[cur], rb)]
                   /\ response_buffer' = rb
                   /\ continue_streaming' = TRUE
                   /\ spc' = "while"
              ELSE /\ response_buffer' = rb
                   /\ continue_streaming' = TRUE
                   /\ spc' = "for"
                   /\ UNCHANGED s
  /\ UNCHANGED <<dispatchVars, cur, out, exhausted, streaming_batch_size, gpc, tokens, ti, buffer,
                 timed_out, chunk, chunks>>

\* CallStreamChunk that tests the timeout before it tests more_coming
CallStreamChunkTimeoutFirst ==
  /\ spc = "chunk"
  /\ LET rb == response_buffer \o chunk.tokens IN
     \E now \in ClockRead(clock) :
       /\ clock' = now
       /\ IF now > Timeout
            THEN /\ s' = [s EXCEPT ![cur] = FinalizeTimeout(s[cur], rb)]
                 /\ response_buffer' = rb
                 /\ continue_streaming' = FALSE
                 /\ spc' = "while"
            ELSE IF ~chunk.more
              THEN /\ s' = [s EXCEPT ![cur] = FinalizeOK(s[cur], rb, now)]
                   /\ response_buffer' = <<>>
                   /\ continue_streaming' = FALSE
                   /\ spc' = "while"
              ELSE /\ response_buffer' = rb
                   /\ continue_streaming' = TRUE
                   /\ spc' = "for"
                   /\ UNCHANGED s
  /\ UNCHANGED <<dispatchVars, cur, out, exhausted, streaming_batch_size, gpc, tokens, ti, buffer,
                 timed_out, chunk, chunks>>

\* the body of the for loop, for the pair the generator has just yielded
CallStreamChunk ==
  /\ spc = "chunk"
  /\ LET rb == response_buffer \o chunk.tokens IN
     \E now \in ClockRead(clock) :
       /\ clock' = now
       /\ IF ~chunk.more
            THEN /\ s' = [s EXCEPT ![cur] = FinalizeOK(s[cur], rb, now)]
                 /\ response_buffer' = <<>>
                 /\ continue_streaming' = FALSE
                 /\ spc' = "while"
            ELSE IF now > Timeout
              THEN /\ s' = [s EXCEPT ![cur] = FinalizeTimeout(s[cur], rb)]
                   /\ response_buffer' = rb
                   /\ continue_streaming' = FALSE
                   /\ spc' = "while"
              ELSE /\ response_buffer' = rb
                   /\ continue_streaming' = TRUE
                   /\ spc' = "for"
                   /\ UNCHANGED s
  /\ UNCHANGED <<dispatchVars, cur, out, exhausted, streaming_batch_size, gpc, tokens, ti, buffer,
                 timed_out, chunk, chunks>>

\* the generator is exhausted without a break: back to the while test
CallStreamForEnd ==
  /\ spc = "for" /\ gpc = "ended"
  /\ spc' = "while"
  /\ UNCHANGED <<dispatchVars, s, cur, continue_streaming, response_buffer, out, exhausted, streamerVars>>

\* the while loop is left: `yield synapse` (forward passes deserialize=False)
CallStreamYield ==
  /\ spc = "while" /\ ~continue_streaming
  /\ out' = Append(out, s[cur])
  /\ spc' = "done"
  /\ UNCHANGED <<dispatchVars, s, cur, continue_streaming, response_buffer, exhausted, streamerVars>>

\* ------------------------------------------------- MockDendrite.call
RECURSIVE Digits(_)
\* str(i) for i >= 0, in ASCII
Digits(n) == IF n < 10 THEN <<48 + n>> ELSE Digits(n \div 10) \o <<48 + (n % 10)>>

\* f"Mock miner completion {i}"
MockCompletion(i) ==
  <<77, 111, 99, 107, SP, 109, 105, 110, 101, 114, SP,
    99, 111, 109, 112, 108, 101, 116, 105, 111, 110, SP>> \o Digits(i)

\* random.uniform(0, timeout * 2)
ProcessTimes == 0..(2 * Timeout - 1)

\* Call with `<=` for `<`: a draw equal to the timeout counts as a success
CallOffByOne(i, rec, d) ==
  IF d <= Timeout
    THEN [rec EXCEPT !.completion = MockCompletion(i), !.status_code = StatusOK,
                     !.status_message = "OK", !.process_time = d]
    ELSE [rec EXCEPT !.completion = <<>>, !.status_code = StatusTimeout,
                     !.status_message = "Timeout", !.process_time = Timeout]

\* Call reporting a timeout as 504 Gateway Timeout
CallGatewayTimeout(i, rec, d) ==
  IF d < Timeout
    THEN [rec EXCEPT !.completion = MockCompletion(i), !.status_code = StatusOK,
                     !.status_message = "OK", !.process_time = d]
    ELSE [rec EXCEPT !.completion = <<>>, !.status_code = 504,
                     !.status_message = "Timeout", !.process_time = Timeout]

\* the record call leaves behind for target index i and draw d (the first
\* write of process_time, the wall time, is overwritten by the draw)
Call(i, rec, d) ==
  IF d < Timeout
    THEN [rec EXCEPT !.completion = MockCompletion(i), !.status_code = StatusOK,
                     !.status_message = "OK", !.process_time = d]
    ELSE [rec EXCEPT !.completion = <<>>, !.status_code = StatusTimeout,
                     !.status_message = "Timeout", !.process_time = Timeout]

\* ---------------------------------------------- MockDendrite.forward
NoRequest == Request("", <<>>)
NoResult == [form |-> "none", target |-> 0]
NoReturn == [outcome |-> "none", value |-> <<>>, exc |-> ""]

\* s = synapse.copy(); s = self.preprocess_synapse_for_request(target_axon, s, timeout)
Clone(template, k) == [template EXCEPT !.axon = k]

\* what single_axon_response hands back for target k: the async generator of
\* call_stream, or what call returns (synapse.deserialize() or the synapse)
Response(k, is_stream, deser) ==
  [form |-> IF is_stream THEN "stream" ELSE IF deser THEN "deserialized" ELSE "record",
   target |-> k]

\* asyncio.gather keeps the result of the k-th awaitable at position k
Gathered(res, k, r) == [res EXCEPT ![k] = r]

\* KindMatches without the assertion of the else branch
KindMatchesStreamOnly(kind, is_stream) ==
  is_stream => kind = "StreamPromptingSynapse"

\* the isinstance assertions at the top of forward
KindMatches(kind, is_stream) ==
  IF is_stream THEN kind = "StreamPromptingSynapse" ELSE kind = "PromptingSynapse"

ForwardAssert ==
  /\ fpc = "call"
  /\ IF KindMatches(synapse.kind, streaming)
       THEN /\ fpc' = "query"
            /\ UNCHANGED ret
       ELSE /\ fpc' = "raised"
            /\ ret' = [outcome |-> "raise", value |-> <<>>, exc |-> "AssertionError"]
  /\ UNCHANGED <<axons, synapse, deserialize, run_async, streaming, task, results,
                 s, callVars, streamerVars>>

\* `if not run_async:` the list comprehension calls
\* single_axon_response(target_axon) without its argument i: TypeError on the
\* first target
QuerySequential ==
  /\ fpc = "query" /\ ~run_async
  /\ IF axons = 0
       THEN /\ fpc' = "returned"
            /\ ret' = [outcome |-> "return", value |-> <<>>, exc |-> ""]
       ELSE /\ fpc' = "raised"
            /\ ret' = [outcome |-> "raise", value |-> <<>>, exc |-> "TypeError"]
  /\ UNCHANGED <<axons, synapse, deserialize, run_async, streaming, task, results,
                 s, callVars, streamerVars>>

\* asyncio.gather(*(single_axon_response(i, target_axon) for ...))
QueryGather ==
  /\ fpc = "query" /\ run_async
  /\ fpc' = "gather"
  /\ task' = [k \in 1..axons |-> "pending"]
  /\ results' = [k \in 1..axons |-> NoResult]
  /\ UNCHANGED <<axons, synapse, deserialize, run_async, streaming, ret,
                 s, callVars, streamerVars>>

\* SingleAxonResponse without `synapse.copy()`: every target fills in the
\* caller's request itself
SingleAxonResponseNoCopy(k) ==
  /\ fpc = "gather" /\ task[k] = "pending"
  /\ IF streaming
       THEN synapse' = Clone(synapse, k)
       ELSE \E d \in ProcessTimes : synapse' = Call(k - 1, Clone(synapse, k), d)
  /\ s' = [j \in 1..axons |-> IF j = k \/ task[j] = "done" THEN synapse' ELSE s[j]]
  /\ results' = Gathered(results, k, Response(k, streaming, deserialize))
  /\ task' = [task EXCEPT ![k] = "done"]
  /\ UNCHANGED <<axons, deserialize, run_async, streaming, fpc, ret,
                 callVars, streamerVars>>

\* SingleAxonResponse with a suspension point inside call, between the write
\* of status_code and the writes of status_message and process_time
SingleAxonResponseSuspends(k) ==
  /\ fpc = "gather" /\ task[k] \in {"pending", "writing"}
  /\ IF streaming
       THEN /\ s' = [s EXCEPT ![k] = Clone(synapse, k)]
            /\ results' = Gathered(results, k, Response(k, streaming, deserialize))
            /\ task' = [task EXCEPT ![k] = "done"]
       ELSE \E d \in ProcessTimes :
              LET rec == Call(k - 1, Clone(synapse, k), d) IN
              IF task[k] = "pending"
                THEN /\ s' = [s EXCEPT ![k] = [rec EXCEPT !.status_message = "",
                                                         !.process_time = NoValue]]
                     /\ task' = [task EXCEPT ![k] = "writing"]
                     /\ UNCHANGED results
                ELSE /\ rec.status_code = s[k].status_code
                     /\ s' = [s EXCEPT ![k] = rec]
                     /\ results' = Gathered(results, k, Response(k, streaming, deserialize))
                     /\ task' = [task EXCEPT ![k] = "done"]
  /\ UNCHANGED <<axons, synapse, deserialize, run_async, streaming, fpc, ret,
                 callVars, streamerVars>>

\* the coroutine of target k (index i = k - 1) runs; it has no suspension point
SingleAxonResponse(k) ==
  /\ fpc = "gather" /\ task[k] = "pending"
  /\ IF streaming
       THEN s' = [s EXCEPT ![k] = Clone(synapse, k)]
       ELSE \E d \in ProcessTimes :
              s' = [s EXCEPT ![k] = Call(k - 1, Clone(synapse, k), d)]
  /\ results' = Gathered(results, k, Response(k, streaming, deserialize))
  /\ task' = [task EXCEPT ![k] = "done"]
  /\ UNCHANGED <<axons, synapse, deserialize, run_async, streaming, fpc, ret,
                 callVars, streamerVars>>

\* every coroutine is done: gather returns the list, forward returns it
GatherReturn ==
  /\ fpc = "gather" /\ \A k \in 1..axons : task[k] = "done"
  /\ fpc' = "returned"
  /\ ret' = [outcome |-> "return", value |-> results, exc |-> ""]
  /\ UNCHANGED <<axons, synapse, deserialize, run_async, streaming, task, results,
                 s, callVars, streamerVars>>

\* the caller starts to iterate the stream forward returned for target k
ConsumeStream(k) ==
  /\ fpc = "returned" /\ cur = 0
  /\ k \in 1..Len(ret.value) /\ ret.value[k].form = "stream"
  /\ cur' = ret.value[k].target
  /\ spc' = "start"
  /\ UNCHANGED <<dispatchVars, s, continue_streaming, response_buffer, out, exhausted, streamerVars>>

\* ------------------------------------- a bare token streamer, listed
\* list(token_streamer(True)) for a MockStreamMiner of any batch size
ListStart ==
  /\ spc = "list"
  /\ NewStreamer(s[cur].prompt)
  /\ spc' = "for"
  /\ UNCHANGED <<dispatchVars, s, cur, continue_streaming, response_buffer, out, exhausted,
                 clock, streaming_batch_size, chunk>>

ListTake ==
  /\ spc = "chunk"
  /\ spc' = "for"
  /\ UNCHANGED <<dispatchVars, s, cur, continue_streaming, response_buffer, out, exhausted, streamerVars>>

ListEnd ==
  /\ spc = "for" /\ gpc = "ended"
  /\ spc' = "done"
  /\ UNCHANGED <<dispatchVars, s, cur, continue_streaming, response_buffer, out, exhausted, streamerVars>>

\* ------------------------------------------------------ specifications
Requests ==
  {Request("PromptingSynapse", Plain(2)), Request("Synapse", <<>>)}
    \cup {Request("StreamPromptingSynapse", p) : p \in Prompts}

IdleCall ==
  /\ cur = 0 /\ spc = "idle" /\ continue_streaming = TRUE
  /\ response_buffer = <<>> /\ out = <<>> /\ exhausted = FALSE

IdleStreamer ==
  /\ gpc = "none" /\ tokens = <<>> /\ ti = 1 /\ buffer = <<>>
  /\ timed_out = FALSE /\ chunk = NoChunk /\ chunks = <<>>

\* forward is called with any list of targets, any request and any flags
Init ==
  /\ axons \in 0..MaxTargets
  /\ synapse \in Requests
  /\ deserialize \in BOOLEAN
  /\ run_async \in BOOLEAN
  /\ streaming \in BOOLEAN
  /\ fpc = "call"
  /\ s = [k \in 1..axons |-> NoRequest]
  /\ task = <<>> /\ results = <<>> /\ ret = NoReturn
  /\ IdleCall /\ IdleStreamer
  /\ clock = 0 /\ streaming_batch_size = StreamingBatchSize

Dispatch ==
  \/ ForwardAssert
  \/ QuerySequential
  \/ QueryGather
  \/ \E k \in 1..axons : SingleAxonResponse(k)
  \/ GatherReturn

Streamer ==
  \/ StreamerToken
  \/ StreamerResume
  \/ StreamerFlush
  \/ StreamerExcept

CallStream ==
  \/ CallStreamStart
  \/ CallStreamLoop
  \/ CallStreamChunk
  \/ CallStreamForEnd
  \/ CallStreamYield

Next ==
  \/ Dispatch
  \/ \E k \in 1..axons : ConsumeStream(k)
  \/ CallStream
  \/ Streamer

Spec == Init /\ [][Next]_vars

\* one streaming request sent to one target, and its stream consumed
InitStream ==
  /\ Init
  /\ axons = 1 /\ streaming /\ run_async /\ ~deserialize
  /\ synapse.kind = "StreamPromptingSynapse"

NextStream ==
  \/ ForwardAssert
  \/ QueryGather
  \/ \E k \in 1..axons : SingleAxonResponse(k)
  \/ GatherReturn
  \/ \E k \in 1..axons : ConsumeStream(k)
  \/ CallStream
  \/ Streamer

SpecStream == InitStream /\ [][NextStream]_vars

\* the program keeps running while it has a step to take
FairSpecStream == SpecStream /\ WF_vars(NextStream)

\* a bare MockStreamMiner of any batch size, started at any time before now
StreamerPrompts == {p \in Prompts : Len(Split(p)) <= 2 * MaxBatch + 1}

InitStreamer ==
  /\ axons = 0 /\ synapse = NoRequest
  /\ deserialize = FALSE /\ run_async = FALSE /\ streaming = FALSE
  /\ fpc = "idle"
  /\ task = <<>> /\ results = <<>> /\ ret = NoReturn
  /\ \E p \in StreamerPrompts : s = <<Request("StreamPromptingSynapse", p)>>
  /\ cur = 1 /\ spc = "list" /\ continue_streaming = TRUE
  /\ response_buffer = <<>> /\ out = <<>> /\ exhausted = FALSE
  /\ IdleStreamer
  /\ clock \in 0..MaxClock
  /\ streaming_batch_size \in 1..MaxBatch

NextStreamer ==
  \/ ListStart
  \/ ListTake
  \/ ListEnd
  \/ Streamer
  \/ StreamerReturn

SpecStreamer == InitStreamer /\ [][NextStreamer]_vars

\* -------------------------------------------------------------- claims
StatusCodes == {StatusOK, StatusTimeout}

\* the request kind does not fit the streaming flag
Mismatch ==
  \/ streaming /\ synapse.kind # "StreamPromptingSynapse"
  \/ ~streaming /\ synapse.kind # "PromptingSynapse"

\* the tokens of all pairs of a list of pairs, in order
RECURSIVE Concat(_)
Concat(cs) == IF cs = <<>> THEN <<>> ELSE cs[1].tokens \o Concat(Tail(cs))

IsPrefix(a, b) == Len(a) <= Len(b) /\ a = SubSeq(b, 1, Len(a))

\* the record of the stream being consumed has been finalized
Finalized == cur # 0 /\ s[cur].status_code # NoValue

\* C1: whenever forward is called with a request that fits the streaming
\* flag, it does not raise and returns one result per target, result k
\* being the one of target k, in the sequential and in the concurrent mode.
C1_ForwardReturnsAll ==
  (fpc \in {"returned", "raised"} /\ ~Mismatch) =>
    /\ ret.outcome = "return"
    /\ Len(ret.value) = axons
    /\ \A k \in 1..axons : ret.value[k].target = k /\ s[k].axon = k

\* C2: every streaming call eventually yields a record with a terminal
\* status, whatever the prompt and the timing of the clock.
C2_StreamTerminates ==
  <>(spc = "done" /\ Len(out) = 1 /\ out[1].status_code \in StatusCodes)

\* C3: when a streaming call's record is finalized before the token loop
\* has run out of tokens (the timeout came first), its completion is the
\* space-joined sequence of a prefix of the prompt's tokens.
C3_CompletionIsPrefix ==
  (Finalized /\ ~exhausted) =>
    \E n \in 0..Len(Split(s[cur].prompt)) :
      s[cur].completion = Join(SubSeq(Split(s[cur].prompt), 1, n))

C3_Witness ==
  /\ Finalized /\ ~exhausted /\ spc = "done"
  /\ s[cur].status_code = StatusTimeout
  /\ s[cur].prompt = Ragged(25)
  /\ s[cur].completion = Join(SubSeq(Split(Ragged(25)), 1, 24))

\* C4: within one streaming call no more tokens are appended to the
\* response buffer than the prompt has.
C4_SinglePass ==
  cur # 0 => Len(response_buffer) <= Len(Split(s[cur].prompt))

\* C5: every status_code that call or call_stream writes is 200 or 408,
\* and so is the status_code of every record they hand back.
C5_StatusCodes ==
  /\ \A k \in 1..axons : s[k].status_code \in StatusCodes \cup {NoValue}
  /\ \A k \in 1..Len(results) :
       results[k].form \in {"record", "deserialized"} =>
         s[results[k].target].status_code \in StatusCodes
  /\ \A j \in 1..Len(out) : out[j].status_code \in StatusCodes

C5_Witness ==
  /\ fpc = "returned" /\ streaming /\ axons = 2 /\ cur = 2
  /\ spc = "done" /\ out # <<>> /\ out[1].status_code = StatusTimeout
  /\ s[1].status_code = NoValue

\* C6: no record carries a process_time above the timeout.
C6_ProcessTimeBounded ==
  \A k \in 1..axons : s[k].process_time <= Timeout

\* C7: a unary call leaves either a success record (200, "OK", a
\* process_time in [0, timeout), a completion that spells the target's
\* index) or a timeout record (408, "Timeout", empty completion,
\* process_time = timeout), different targets get different completions on
\* success, and the call hands a result back.
C7_UnaryRecord ==
  \A k \in 1..axons :
    (~streaming /\ fpc \in {"gather", "returned"} /\ task[k] = "done") =>
      /\ results[k].form \in {"record", "deserialized"} /\ results[k].target = k
      /\ \/ /\ s[k].status_code = StatusOK
            /\ s[k].status_message = "OK"
            /\ s[k].process_time >= 0 /\ s[k].process_time < Timeout
            /\ s[k].completion = MockCompletion(k - 1)
            /\ \A j \in 1..axons : MockCompletion(j - 1) = s[k].completion => j = k
         \/ /\ s[k].status_code = StatusTimeout
            /\ s[k].status_message = "Timeout"
            /\ s[k].process_time = Timeout
            /\ s[k].completion = <<>>

C7_Witness ==
  /\ ~streaming /\ fpc = "returned" /\ axons = 3
  /\ s[1].status_code = StatusTimeout
  /\ s[2].status_code = StatusOK /\ s[2].process_time = 0
  /\ s[3].status_code = StatusOK /\ s[3].process_time = Timeout - 1

\* C8: when the request kind does not fit the streaming flag, forward
\* raises its assertion and nothing else happens: no clone, no task, no
\* result, no stream, no record written.
C8_FailsFast ==
  Mismatch =>
    /\ fpc \in {"call", "raised"}
    /\ fpc = "raised" => ret.outcome = "raise" /\ ret.exc = "AssertionError"
    /\ \A k \in 1..axons : s[k] = NoRequest
    /\ task = <<>> /\ results = <<>>
    /\ cur = 0 /\ spc = "idle" /\ out = <<>>

C8_Witness ==
  /\ Mismatch /\ fpc = "raised" /\ axons = MaxTargets
  /\ ~streaming /\ synapse.kind = "StreamPromptingSynapse" /\ run_async

\* the pairs a streamer of batch size b owes for the token list toks
ExpectedChunks(toks, b) ==
  LET n == Len(toks)
      full == n \div b
  IN [k \in 1..(full + (IF n % b = 0 THEN 0 ELSE 1)) |->
        IF k <= full
          THEN [tokens |-> SubSeq(toks, (k - 1) * b + 1, k * b), more |-> TRUE]
          ELSE [tokens |-> SubSeq(toks, full * b + 1, n), more |-> FALSE]]

\* C9: a streamer whose timeout check never fires yields the tokens in
\* batches of exactly the batch size with more_coming = true, then the
\* remainder, if there is one, with more_coming = false; all pairs together
\* are the whitespace-split prompt.
C9_Chunking ==
  (spc = "done" /\ ~timed_out) =>
    /\ chunks = ExpectedChunks(Split(s[cur].prompt), streaming_batch_size)
    /\ Concat(chunks) = Split(s[cur].prompt)

C9_Witness ==
  /\ spc = "done" /\ ~timed_out
  /\ s[cur].prompt = Plain(5) /\ streaming_batch_size = 2
  /\ chunks = << [tokens |-> << <<2>>, <<3>> >>, more |-> TRUE],
                 [tokens |-> << <<4>>, <<5>> >>, more |-> TRUE],
                 [tokens |-> << <<6>> >>, more |-> FALSE] >>

\* C10: a streamer whose timeout check has fired still ends with one pair
\* with more_coming = false that holds the buffered tokens.
C10_FlushOnTimeout ==
  (gpc = "ended" /\ timed_out) =>
    /\ chunks # <<>>
    /\ chunks[Len(chunks)].more = FALSE
    /\ chunks[Len(chunks)].tokens = buffer


\* C11: when the streamer's timeout check has fired and control is back at
\* the while test of call_stream, the streamer has flushed a final pair and
\* the record is a 200 whose completion is a proper prefix of the prompt.
C11_TruncatedSuccess ==
  (cur # 0 /\ spc = "while" /\ timed_out) =>
    /\ ~continue_streaming
    /\ s[cur].status_code = StatusOK
    /\ IsPrefix(Split(s[cur].completion), Split(s[cur].prompt))
    /\ Len(Split(s[cur].completion)) < Len(Split(s[cur].prompt))


\* C12: a step that writes the record of one target leaves the record of
\* every other target and the caller's request template as they were.
C12_OwnClone ==
  [][\A k \in 1..axons :
       s'[k] # s[k] =>
         /\ \A j \in 1..axons : j # k => s'[j] = s[j]
         /\ synapse' = synapse]_vars

C12_Witness ==
  /\ axons = 3
  /\ \/ /\ ~streaming /\ fpc = "gather" /\ task = <<"done", "pending", "done">>
        /\ s[1].status_code = StatusOK /\ s[3].status_code = StatusTimeout
        /\ s[2] = NoRequest
     \/ /\ streaming /\ cur = 2 /\ s[2].status_code = StatusTimeout
        /\ s[1] = Clone(synapse, 1) /\ s[3] = Clone(synapse, 3)
  /\ synapse.status_code = NoValue /\ synapse.axon = 0


\* C13: a record that carries a terminal status keeps its status_code,
\* completion and process_time; once the record of the consumed stream is
\* terminal the call starts no generator and pulls no further pair; a
\* target's coroutine that is done stays done with the result it gave.
C13_OutcomeIsFinal ==
  [][/\ \A k \in 1..axons :
          s[k].status_code \in StatusCodes =>
            /\ s'[k].status_code = s[k].status_code
            /\ s'[k].completion = s[k].completion
            /\ s'[k].process_time = s[k].process_time
     /\ Finalized =>
          /\ gpc' = gpc /\ ti' = ti /\ chunk' = chunk /\ chunks' = chunks
          /\ response_buffer' = response_buffer /\ cur' = cur
     /\ \A k \in DOMAIN task :
          task[k] = "done" => task'[k] = "done" /\ results'[k] = results[k]]_vars

C13_Witness ==
  /\ Finalized /\ spc = "done" /\ Len(out) = 1
  /\ s[cur].status_code = StatusTimeout
  /\ Len(response_buffer) = 2 * StreamingBatchSize


\* C14: the step that handles a pulled pair appends its tokens and then:
\* more_coming = false gives a 200 "OK" record whose completion joins all
\* accumulated tokens; more_coming = true with the timeout exceeded gives a
\* 408 "Timeout" record with process_time = timeout and the tokens so far
\* as completion; otherwise nothing is written and the next pair is pulled.
C14_ChunkHandling ==
  [][(spc = "chunk" /\ cur # 0) =>
       LET rb == response_buffer \o chunk.tokens IN
       IF ~chunk.more
         THEN /\ s'[cur].status_code = StatusOK
              /\ s'[cur].status_message = "OK"
              /\ s'[cur].completion = Join(rb)
              /\ s'[cur].process_time = clock'
              /\ spc' = "while" /\ ~continue_streaming'
         ELSE IF clock' > Timeout
           THEN /\ s'[cur].status_code = StatusTimeout
                /\ s'[cur].status_message = "Timeout"
                /\ s'[cur].process_time = Timeout
                /\ s'[cur].completion = Join(rb)
                /\ spc' = "while" /\ ~continue_streaming'
           ELSE /\ s' = s
                /\ response_buffer' = rb
                /\ spc' = "for" /\ continue_streaming']_vars

C14_Witness ==
  /\ Finalized /\ spc = "while" /\ ~continue_streaming
  /\ s[cur].status_code = StatusOK
  /\ s[cur].prompt = Ragged(14)
  /\ s[cur].completion = Join(Split(Ragged(14)))
  /\ Len(chunks) = 2


\* a record is either untouched or carries all four fields of one outcome
WholeRecord(rec) ==
  \/ /\ rec.status_code = NoValue /\ rec.status_message = ""
     /\ rec.process_time = NoValue /\ rec.completion = <<>>
  \/ /\ rec.status_code = StatusOK /\ rec.status_message = "OK"
     /\ rec.process_time # NoValue
  \/ /\ rec.status_code = StatusTimeout /\ rec.status_message = "Timeout"
     /\ rec.process_time = Timeout

\* C15: no state shows a half-written record; the record of target k is
\* written only by the step of k's own coroutine (or by the call_stream that
\* consumes k's stream), and during a gather one coroutine runs per step.
C15_AtomicFinalization ==
  /\ [](\A k \in 1..axons : WholeRecord(s[k]))
  /\ [][\A k \in 1..axons :
          /\ s'[k] # s[k] =>
               \/ fpc = "gather" /\ task[k] = "pending" /\ task'[k] = "done"
               \/ cur = k /\ spc = "chunk"
          /\ (fpc = "gather" /\ task'[k] # task[k]) =>
               \A j \in 1..axons : j # k => task'[j] = task[j] /\ s'[j] = s[j]]_vars

C15_Witness ==
  /\ run_async /\ ~streaming /\ axons = 3 /\ fpc = "gather"
  /\ task = <<"pending", "done", "pending">>
  /\ s[2].status_code = StatusOK /\ s[2].status_message = "OK" /\ s[2].process_time = 5
  /\ s[1] = NoRequest /\ s[3] = NoRequest


\* C16: when forward returns in streaming mode every result is a stream
\* that has not run (no record has a status); a stream never yields a
\* second item nor an item whose record is not terminal; and a stream
\* that is consumed does yield its one item.
C16_LazySingleItem ==
  /\ []((streaming /\ fpc = "returned" /\ cur = 0) =>
          \A k \in 1..axons :
            ret.value[k].form = "stream" /\ s[k].status_code = NoValue)
  /\ [](Len(out) <= 1 /\ (out # <<>> => Finalized /\ out[1] = s[cur]))
  /\ (spc = "start" ~> Len(out) = 1)


\* C17: every pair a streamer has yielded is non-empty and holds at most
\* batch-size tokens, exactly batch-size tokens when more_coming = true,
\* and a pair with more_coming = false is the last one of its pass.
C17_ChunkShape ==
  \A i \in 1..Len(chunks) :
    /\ chunks[i].tokens # <<>>
    /\ Len(chunks[i].tokens) <= streaming_batch_size
    /\ chunks[i].more => Len(chunks[i].tokens) = streaming_batch_size
    /\ ~chunks[i].more => i = Len(chunks)

C17_Witness ==
  /\ spc = "done" /\ gpc = "ended" /\ streaming_batch_size = 3
  /\ Len(tokens) = 7
  /\ \/ timed_out /\ Len(chunks) = 2 /\ chunks[2].more
     \/ ~timed_out /\ Len(chunks) = 3 /\ ~chunks[3].more /\ Len(chunks[3].tokens) = 1


\* C18: the completion of a streaming record with status 408 holds a
\* positive multiple of the batch size (12) of tokens.
C18_TimeoutOnFullBatches ==
  (cur # 0 /\ s[cur].status_code = StatusTimeout) =>
    /\ Len(Split(s[cur].completion)) > 0
    /\ Len(Split(s[cur].completion)) % StreamingBatchSize = 0

C18_Witness ==
  /\ cur # 0 /\ s[cur].status_code = StatusTimeout /\ spc = "done"
  /\ s[cur].prompt = Plain(23)
  /\ Len(Split(s[cur].completion)) = StreamingBatchSize

====
